---- MODULE Spec2Model ----
(***************************************************************************)
(* Payment orchestration saga of the e-commerce platform:                  *)
(*   payment service  (src/email/index.js, lines 33-374)                   *)
(*   bearer-token and service-key middleware (src/email/middleware/auth.js)*)
(*   order service    (src/unnamed/part_002)                               *)
(*   email service    (src/email/index.js, lines 1-31)                     *)
(* One run is one request to POST /api/payment.  A run is cut at its       *)
(* awaits: the gateway call, the order-service call and the email call.    *)
(***************************************************************************)
EXTENDS Integers, Sequences, FiniteSets, TLC

\* ------------------------------------------------------------------ bounds
MaxTime == 1        \* the clock runs 0..MaxTime
MaxTotal == 1       \* request totals range over -1..MaxTotal

Runs == {1, 2}      \* the requests to POST /api/payment of one behaviour
Users == {1, 2}     \* users.id values (SERIAL, so positive)
TxnIds == {"MP1", "MP2"}   \* output_TransactionID values the gateway hands out

\* ------------------------------------------------------- JSON-like values
\* A body is a record tagged by "json"; absent object fields are absent
\* record fields, so that JavaScript's undefined is field absence.
JNull == [json |-> "null"]
JEmpty == [json |-> "empty"]
JString(s) == [json |-> "string", v |-> s]
Truthy(d) == d.json \notin {"null", "empty"}
Has(rec, f) == f \in DOMAIN rec

\* ------------------------------------------------------------- credentials
JWT_SECRET == "jwt-secret"
SERVICE_API_KEY == "service-key"

NoToken == [kind |-> "none"]
Malformed == [kind |-> "malformed"]
EmailOf(u) == <<"user", u>>
\* variant: the token is signed with its expiry at the time of signing
Sign_NoLifetime(u, e, secret, expiresIn, t) ==
    [kind |-> "jwt", userId |-> u, email |-> e, iat |-> t,
     exp |-> t, key |-> secret]

\* jwt.sign({userId, email}, secret, {expiresIn}) at time t: the payload gets
\* iat = t and exp = t + expiresIn
Sign(u, e, secret, expiresIn, t) ==
    [kind |-> "jwt", userId |-> u, email |-> e, iat |-> t,
     exp |-> t + expiresIn, key |-> secret]

\* variant: the expiry is checked before the signature
Verify_ExpiryFirst(token, secret, t) ==
    IF token.kind # "jwt" THEN [ok |-> FALSE, name |-> "JsonWebTokenError"]
    ELSE IF t >= token.exp THEN [ok |-> FALSE, name |-> "TokenExpiredError"]
    ELSE IF token.key # secret THEN [ok |-> FALSE, name |-> "JsonWebTokenError"]
    ELSE [ok |-> TRUE, name |-> "none",
          decoded |-> [userId |-> token.userId, email |-> token.email,
                       iat |-> token.iat, exp |-> token.exp]]

\* jwt.verify: the signature is checked before the expiry
Verify(token, secret, t) ==
    IF token.kind # "jwt" THEN [ok |-> FALSE, name |-> "JsonWebTokenError"]
    ELSE IF token.key # secret THEN [ok |-> FALSE, name |-> "JsonWebTokenError"]
    ELSE IF t >= token.exp THEN [ok |-> FALSE, name |-> "TokenExpiredError"]
    ELSE [ok |-> TRUE, name |-> "none",
          decoded |-> [userId |-> token.userId, email |-> token.email,
                       iat |-> token.iat, exp |-> token.exp]]

NoUser == [userId |-> 0]

\* variant: the token is decoded without checking its expiry
authenticateToken_IgnoreExpiry(token, t) ==
    IF token.kind = "none"
    THEN [next |-> FALSE, user |-> NoUser,
          res |-> [status |-> 401, success |-> FALSE,
                   message |-> "Access token required"]]
    ELSE LET v == Verify(token, JWT_SECRET, 0) IN
         IF v.ok
         THEN [next |-> TRUE, user |-> v.decoded, res |-> [status |-> 0]]
         ELSE [next |-> FALSE, user |-> NoUser,
               res |-> [status |-> 403, success |-> FALSE,
                        message |-> "Invalid access token"]]

authenticateToken(token, t) ==
    IF token.kind = "none"
    THEN [next |-> FALSE, user |-> NoUser,
          res |-> [status |-> 401, success |-> FALSE,
                   message |-> "Access token required"]]
    ELSE LET v == Verify(token, JWT_SECRET, t) IN
         IF v.ok
         THEN [next |-> TRUE, user |-> v.decoded, res |-> [status |-> 0]]
         ELSE IF v.name = "TokenExpiredError"
         THEN [next |-> FALSE, user |-> NoUser,
               res |-> [status |-> 401, success |-> FALSE,
                        message |-> "Access token expired", expired |-> TRUE]]
         ELSE [next |-> FALSE, user |-> NoUser,
               res |-> [status |-> 403, success |-> FALSE,
                        message |-> "Invalid access token"]]

NoKey == "no-key"
\* variant: any key that is present is let through
authenticateService_AnyKey(apiKey) ==
    IF apiKey = NoKey
    THEN [next |-> FALSE,
          res |-> [status |-> 401, success |-> FALSE, message |-> "API key required"]]
    ELSE [next |-> TRUE, res |-> [status |-> 0]]

authenticateService(apiKey) ==
    IF apiKey = NoKey
    THEN [next |-> FALSE,
          res |-> [status |-> 401, success |-> FALSE, message |-> "API key required"]]
    ELSE IF apiKey # SERVICE_API_KEY
    THEN [next |-> FALSE,
          res |-> [status |-> 403, success |-> FALSE, message |-> "Invalid API key"]]
    ELSE [next |-> TRUE, res |-> [status |-> 0]]


\* ------------------------------------------------- payment gateway client
defaultPhone == "258845760448"

AxiosStatusMessage(s) == [json |-> "string", v |-> "Request failed with status code", code |-> s]
AxiosNetworkMessage == JString("timeout exceeded or network error")
TypeErrorMessage == JString("Cannot read properties of undefined or null")

GwOkBody(t) ==
    [json |-> "object", output_TransactionID |-> t, output_ConversationID |-> "conv",
     output_ResponseCode |-> "INS-0", output_ResponseDesc |-> "Request processed successfully"]
GwErrBody ==
    [json |-> "object", output_ResponseCode |-> "INS-6", output_ResponseDesc |-> "Transaction Failed"]

\* What the external gateway can answer to the single outbound call:
\* no HTTP response at all (network error, 30 s deadline), or a status and a body.
GatewayReplies ==
    {[kind |-> "noResponse"]}
    \cup {[kind |-> "http", status |-> s, data |-> d] :
             s \in {200, 201}, d \in {GwOkBody(t) : t \in TxnIds} \cup {[json |-> "object"], JNull}}
    \cup {[kind |-> "http", status |-> s, data |-> d] :
             s \in {400, 401}, d \in {GwErrBody, JEmpty}}

\* axios resolves on 2xx and rejects otherwise (default validateStatus)
Is2xx(s) == s >= 200 /\ s < 300

\* variant: the upstream status is dropped, every failure is reported as 500
processMpesaPayment_Status500(reply) ==
    IF reply.kind = "noResponse"
    THEN [success |-> FALSE, statusCode |-> 500, error |-> AxiosNetworkMessage]
    ELSE IF Is2xx(reply.status)
    THEN IF reply.data.json = "null"
         THEN [success |-> FALSE, statusCode |-> 500, error |-> TypeErrorMessage]
         ELSE [success |-> TRUE, statusCode |-> reply.status, data |-> reply.data]
    ELSE [success |-> FALSE, statusCode |-> 500,
          error |-> IF Truthy(reply.data) THEN reply.data
                    ELSE AxiosStatusMessage(reply.status)]

processMpesaPayment(reply) ==
    IF reply.kind = "noResponse"
    THEN [success |-> FALSE, statusCode |-> 500, error |-> AxiosNetworkMessage]
    ELSE IF Is2xx(reply.status)
    THEN IF reply.data.json = "null"
         \* response.data.output_ResponseDesc throws inside the try
         THEN [success |-> FALSE, statusCode |-> 500, error |-> TypeErrorMessage]
         ELSE [success |-> TRUE, statusCode |-> reply.status, data |-> reply.data]
    ELSE [success |-> FALSE,
          statusCode |-> IF reply.status # 0 THEN reply.status ELSE 500,
          error |-> IF Truthy(reply.data) THEN reply.data
                    ELSE AxiosStatusMessage(reply.status)]

\* `TXN${Date.now()}${Math.floor(Math.random() * 1000)}`
generateTransactionRef(t, rnd) == [prefix |-> "TXN", ms |-> t, rnd |-> rnd]

\* ------------------------------------------------------------ order service
Copy(to, from, f) == IF Has(from, f) THEN to :> from[f] ELSE <<>>

\* Amounts are counted in thousandths of a currency unit, so that a JSON
\* number with three decimals has a value here.
Mils == 1000

\* amount DECIMAL(10, 2): the value is rounded to two decimals, halves away
\* from zero, when it is stored (the amounts here stay far below the
\* column's precision)
Decimal(a) ==
    IF a >= 0 THEN ((a + 5) \div 10) * 10 ELSE -(((-a + 5) \div 10) * 10)

\* variant: the order_id column has no UNIQUE constraint
InsertOrder_NoUnique(db, row) ==
    [ok |-> TRUE,
     db |-> db \cup {IF \E o \in db : o.order_id = row.order_id
                     THEN row @@ [dup |-> TRUE] ELSE row}]

\* INSERT INTO orders ... RETURNING *; order_id is UNIQUE NOT NULL
InsertOrder(db, row) ==
    IF \E o \in db : o.order_id = row.order_id
    THEN [ok |-> FALSE, db |-> db]
    ELSE [ok |-> TRUE, db |-> db \cup {row}]

\* POST /orders of the order service: authenticateService, then the handler
PostOrders(apiKey, body, db, t) ==
    LET a == authenticateService(apiKey) IN
    IF ~a.next THEN [res |-> a.res, db |-> db]
    ELSE IF ~Has(body, "userId") \/ body.userId = 0
            \/ ~Has(body, "transactionId")
            \/ ~Has(body, "amount") \/ body.amount = 0
            \/ ~Has(body, "cart")
    THEN [res |-> [status |-> 400, success |-> FALSE,
                   message |-> "Missing required order fields"], db |-> db]
    ELSE LET orderId == [prefix |-> "ORD", ms |-> t]
             row == [order_id |-> orderId, user_id |-> body.userId,
                     transaction_id |-> body.transactionId,
                     amount |-> Decimal(body.amount), cart |-> body.cart,
                     customer_phone |-> body.customerPhone, status |-> "paid"]
                    @@ Copy("conversation_id", body, "conversationId")
                    @@ Copy("transaction_reference", body, "transactionReference")
             ins == InsertOrder(db, row)
         IN IF ~ins.ok
            THEN [res |-> [status |-> 500, success |-> FALSE,
                           message |-> "Failed to create order"], db |-> db]
            ELSE [res |-> [status |-> 201, success |-> TRUE,
                           message |-> "Order created successfully",
                           data |-> [orderId |-> row.order_id, userId |-> row.user_id,
                                     transactionId |-> row.transaction_id,
                                     amount |-> row.amount, status |-> row.status]],
                  db |-> ins.db]

\* the order service's express app: the router is mounted under /api, any
\* other path is answered 404
OrderService(path, apiKey, body, db, t) ==
    IF path = <<"api", "orders">> THEN PostOrders(apiKey, body, db, t)
    ELSE [res |-> [status |-> 404], db |-> db]

\* ------------------------------------------------------------ email service
\* POST /send-email: authenticateService, cart.map(...), 200
PostSendEmail(apiKey, body) ==
    LET a == authenticateService(apiKey) IN
    IF ~a.next THEN a.res
    ELSE IF ~Has(body, "cart") THEN [status |-> 500]
    ELSE [status |-> 200, message |-> "Email sent successfully"]

\* ------------------------------------------- payment service: outbound calls
\* The ways a call to a collaborator can end besides reaching its handler and
\* bringing the handler's answer back.
OrderNet == {"delivered", "replyLost", "unreachable", "errorStatus", "noData", "nullBody"}
EmailNet == {"delivered", "unreachable", "errorStatus"}

HttpOf(res) == [kind |-> "http", status |-> res.status, data |-> [json |-> "object"] @@ res]

\* variant: axios resolves on every status, so an error answer counts as created
createOrder_NoReject(reply) ==
    IF reply.kind = "noResponse"
    THEN [success |-> FALSE, error |-> AxiosNetworkMessage]
    ELSE IF reply.data.json = "null"
    THEN [success |-> FALSE, error |-> TypeErrorMessage]
    ELSE [success |-> TRUE] @@ Copy("data", reply.data, "data")

createOrder(reply) ==
    IF reply.kind = "noResponse"
    THEN [success |-> FALSE, error |-> AxiosNetworkMessage]
    ELSE IF ~Is2xx(reply.status)
    THEN [success |-> FALSE, error |-> AxiosStatusMessage(reply.status)]
    ELSE IF reply.data.json = "null"
    \* response.data.data?.orderId throws on a null body, inside the try
    THEN [success |-> FALSE, error |-> TypeErrorMessage]
    ELSE [success |-> TRUE] @@ Copy("data", reply.data, "data")

sendEmail(reply) ==
    IF reply.kind = "noResponse"
    THEN [success |-> FALSE, error |-> AxiosNetworkMessage]
    ELSE IF ~Is2xx(reply.status)
    THEN [success |-> FALSE, error |-> AxiosStatusMessage(reply.status)]
    ELSE [success |-> TRUE]


\* ------------------------------------------------------------------- state
VARIABLES
    now,            \* the clock: Date.now() and the jwt clock, in ticks
    pc,             \* per run: "idle", "gateway", "order", "email", "done"
    req,            \* per run: the express request (headers, body, user) and
                    \*          the handler's locals (phone, transactionRef)
    gatewayReply,   \* per run: what the gateway answered to the outbound call
    orderReply,     \* per run: what came back from the order-service call
    emailReply,     \* per run: what came back from the email-service call
    result,         \* per run: what processMpesaPayment returned
    orderResult,    \* per run: what createOrder returned
    emailResult,    \* per run: what sendEmail returned
    responseData,   \* per run: the handler's responseData object
    response,       \* per run: the HTTP response sent to the caller
    calls,          \* per run: the outbound calls issued and returned, in order
    orders,         \* the rows of the orders table
    users,          \* auth service: the rows of the users table, by id
    issued,         \* auth service: the tokens signed so far
    authOut,        \* auth service and user endpoints: the last exchange
    localStorage,   \* browser: the accessToken and refreshToken items
    call,           \* browser: the api.ts call in progress
    authRoute,      \* deployment: what answers at AUTH_API_URL
    ORDER_SERVICE_URL,  \* deployment: the path part of the payment
                    \*             service's ORDER_SERVICE_URL
    msisdn,         \* a phone string and what formatPhoneNumber made of it
    held            \* per service: the pool clients checked out and not
                    \*              released

replies == <<gatewayReply, orderReply, emailReply>>
saga == <<pc, req, gatewayReply, orderReply, emailReply, result, orderResult,
         emailResult, responseData, response, calls, orders>>
auth == <<users, issued, authOut>>
elsewhere == <<authRoute, ORDER_SERVICE_URL, msisdn, held>>
client == <<localStorage, call, elsewhere>>
vars == <<now, saga, auth, client>>

Cart == <<[id |-> 1, name |-> "X", price |-> 100, quantity |-> 2]>>
RandomSuffixes == {0}

\* request bodies of POST /api/payment: total absent, or a whole number of
\* currency units in -1..MaxTotal
Bodies ==
    {[cart |-> Cart]}
    \cup {[cart |-> Cart, total |-> n * Mils] : n \in -1..MaxTotal}

\* bearer credentials a caller can present: none, a malformed one, one signed
\* with another key, one that expires at tick 1, one that outlives the clock
HeaderTokens ==
    {NoToken, Malformed,
     Sign(1, EmailOf(1), "forged", MaxTime + 1, 0),
     Sign(1, EmailOf(1), JWT_SECRET, 1, 0),
     Sign(2, EmailOf(2), JWT_SECRET, MaxTime + 1, 0)}

NoReq == [at |-> -1]
NoReply == [kind |-> "none"]
NoResult == [success |-> FALSE, statusCode |-> 0]
NoOutcome == [success |-> FALSE, pending |-> TRUE]
NoData == [success |-> FALSE, pending |-> TRUE]
NoResponse == [status |-> 0]
NoExchange == [op |-> "none"]
NoItem == [kind |-> "none"]
\* an api.ts call: the function, where it stands, how many calls were made
\* before it, when it was made, the bearer tokens sent to the protected endpoint, the tokens
\* offered to the refresh endpoint, the answers received, and how it ended
NoCall ==
    [fn |-> "none", pc |-> "idle", n |-> 0, at |-> 0, sent |-> <<>>,
     offered |-> <<>>,
     first |-> NoResponse, result |-> NoResponse, second |-> NoResponse,
     outcome |-> [kind |-> "none"]]

\* the users table is empty and nothing has been signed
AuthIdle ==
    /\ users = <<>>
    /\ issued = {}
    /\ authOut = NoExchange

\* the order service mounts its router under /api, and `${ORDER_SERVICE_URL}`
\* is either the default http://localhost:4001 or that host with the mount
OrderMount == <<"api">>
OrderServiceUrls == {<<>>, OrderMount}
NoPhone == [phone |-> <<>>, pc |-> "idle", out |-> <<>>, again |-> <<>>]
\* new Pool(...): no client is checked out
NoHandles == [auth |-> 0, order |-> 0]

\* the payment service is configured with the order service's mount
PaymentConfigured ==
    /\ ORDER_SERVICE_URL = OrderMount
    /\ msisdn = NoPhone
    /\ held = NoHandles

\* no page is open
ClientIdle ==
    /\ localStorage = [accessToken |-> NoItem, refreshToken |-> NoItem]
    /\ call = NoCall
    /\ authRoute = "service"

\* no payment request has been received yet
SagaIdle ==
    /\ pc = [r \in Runs |-> "idle"]
    /\ req = [r \in Runs |-> NoReq]
    /\ gatewayReply = [r \in Runs |-> NoReply]
    /\ orderReply = [r \in Runs |-> NoReply]
    /\ emailReply = [r \in Runs |-> NoReply]
    /\ result = [r \in Runs |-> NoResult]
    /\ orderResult = [r \in Runs |-> NoOutcome]
    /\ emailResult = [r \in Runs |-> NoOutcome]
    /\ responseData = [r \in Runs |-> NoData]
    /\ response = [r \in Runs |-> NoResponse]
    /\ calls = [r \in Runs |-> <<>>]
    /\ orders = {}

Init ==
    /\ now = 0
    /\ SagaIdle
    /\ AuthIdle
    /\ ClientIdle
    /\ PaymentConfigured

Tick ==
    /\ now < MaxTime
    /\ now' = now + 1
    /\ UNCHANGED <<auth, client, pc, req, replies, result, orderResult,
                   emailResult, responseData, response, calls, orders>>

\* variant: the handler returns without sending the response
Respond_NoSend(r, res) ==
    /\ pc' = [pc EXCEPT ![r] = "done"]
    /\ UNCHANGED response

\* res.status(...).json(...): the run ends
Respond(r, res) ==
    /\ response' = [response EXCEPT ![r] = res]
    /\ pc' = [pc EXCEPT ![r] = "done"]

\* variant: a total of 0 passes the validation
InvalidTotal_ZeroPasses(body) == ~Has(body, "total") \/ body.total < 0

\* !total || total <= 0
InvalidTotal(body) == ~Has(body, "total") \/ body.total = 0 \/ body.total <= 0

\* POST /api/payment up to the first await: authenticateToken, validation,
\* the references, and the gateway call is issued.  The request body is one
\* of bodies.
PaymentWith(r, bodies) ==
    /\ pc[r] = "idle"
    /\ \E token \in HeaderTokens, body \in bodies, rnd \in RandomSuffixes :
        LET a == authenticateToken(token, now)
            rq == [authorization |-> token, body |-> body, at |-> now]
        IN
        IF ~a.next
        THEN /\ req' = [req EXCEPT ![r] = rq]
             /\ Respond(r, a.res)
             /\ UNCHANGED calls
        ELSE IF InvalidTotal(body)
        THEN /\ req' = [req EXCEPT ![r] = rq @@ [user |-> a.user]]
             /\ Respond(r, [status |-> 400, success |-> FALSE,
                            message |-> "Invalid or missing total amount"])
             /\ UNCHANGED calls
        ELSE /\ req' = [req EXCEPT ![r] =
                          rq @@ [user |-> a.user,
                                 phone |-> IF Has(body, "customerPhone")
                                           THEN body.customerPhone ELSE defaultPhone,
                                 transactionRef |-> generateTransactionRef(now, rnd)]]
             /\ calls' = [calls EXCEPT ![r] = Append(@, "gateway:call")]
             /\ pc' = [pc EXCEPT ![r] = "gateway"]
             /\ UNCHANGED response
    /\ UNCHANGED <<auth, client, now, replies, result, orderResult, emailResult, responseData, orders>>

Payment(r) == PaymentWith(r, Bodies)

\* variant: any 2xx answer of the gateway counts as a charge
PaymentSucceeded_Any2xx(rs) == rs.success

\* result.success && result.statusCode === 201
PaymentSucceeded(rs) == rs.success /\ rs.statusCode = 201

\* variant: the response reports a reference generated when it is built
Skeleton_FreshRef(rq, rs) ==
    [success |-> TRUE, message |-> "Payment processed successfully",
     data |-> [transactionReference |-> generateTransactionRef(rq.at + 1, 0),
               amount |-> rq.body.total, cart |-> rq.body.cart]
              @@ Copy("transactionId", rs.data, "output_TransactionID")
              @@ Copy("conversationId", rs.data, "output_ConversationID")
              @@ Copy("responseCode", rs.data, "output_ResponseCode")
              @@ Copy("responseDesc", rs.data, "output_ResponseDesc")]

\* the response skeleton built on a successful payment
Skeleton(rq, rs) ==
    [success |-> TRUE, message |-> "Payment processed successfully",
     data |-> [transactionReference |-> rq.transactionRef, amount |-> rq.body.total,
               cart |-> rq.body.cart]
              @@ Copy("transactionId", rs.data, "output_TransactionID")
              @@ Copy("conversationId", rs.data, "output_ConversationID")
              @@ Copy("responseCode", rs.data, "output_ResponseCode")
              @@ Copy("responseDesc", rs.data, "output_ResponseDesc")]

\* variant: the conversation id is sent as the transaction id
OrderData_Swapped(rq, rs) ==
    [userId |-> rq.user.userId, transactionReference |-> rq.transactionRef,
     amount |-> rq.body.total, cart |-> rq.body.cart, customerPhone |-> rq.phone]
    @@ Copy("transactionId", rs.data, "output_ConversationID")
    @@ Copy("conversationId", rs.data, "output_ConversationID")

\* the body createOrder posts to the order service
OrderData(rq, rs) ==
    [userId |-> rq.user.userId, transactionReference |-> rq.transactionRef,
     amount |-> rq.body.total, cart |-> rq.body.cart, customerPhone |-> rq.phone]
    @@ Copy("transactionId", rs.data, "output_TransactionID")
    @@ Copy("conversationId", rs.data, "output_ConversationID")

\* variant: a failed payment does not abort the saga
GatewayReturn_NoAbort(r) ==
    /\ pc[r] = "gateway"
    /\ \E reply \in GatewayReplies :
        LET rs == processMpesaPayment(reply) IN
        /\ gatewayReply' = [gatewayReply EXCEPT ![r] = reply]
        /\ result' = [result EXCEPT ![r] = rs]
        /\ responseData' = [responseData EXCEPT ![r] =
               IF rs.success THEN Skeleton(req[r], rs) ELSE [success |-> TRUE]]
        /\ calls' = [calls EXCEPT ![r] = @ \o <<"gateway:return", "order:call">>]
        /\ pc' = [pc EXCEPT ![r] = "order"]
        /\ UNCHANGED response
    /\ UNCHANGED <<auth, client, now, req, orderReply, emailReply, orderResult, emailResult, orders>>

\* variant: the order call and the email call are issued together
GatewayReturn_FanOut(r) ==
    /\ pc[r] = "gateway"
    /\ \E reply \in GatewayReplies :
        LET rs == processMpesaPayment(reply) IN
        /\ gatewayReply' = [gatewayReply EXCEPT ![r] = reply]
        /\ result' = [result EXCEPT ![r] = rs]
        /\ IF PaymentSucceeded(rs)
           THEN /\ responseData' = [responseData EXCEPT ![r] = Skeleton(req[r], rs)]
                /\ calls' = [calls EXCEPT ![r] =
                                @ \o <<"gateway:return", "order:call", "email:call">>]
                /\ pc' = [pc EXCEPT ![r] = "order"]
                /\ UNCHANGED response
           ELSE /\ calls' = [calls EXCEPT ![r] = Append(@, "gateway:return")]
                /\ Respond(r, [status |-> IF rs.statusCode # 0 THEN rs.statusCode ELSE 500,
                               success |-> FALSE, message |-> "Payment failed"]
                              @@ Copy("error", rs, "error"))
                /\ UNCHANGED responseData
    /\ UNCHANGED <<auth, client, now, req, orderReply, emailReply, orderResult, emailResult, orders>>

\* the gateway call returns; on success the order call is issued
\* variant: a failed gateway call is issued a second time
GatewayReturn_Retry(r) ==
    /\ pc[r] = "gateway"
    /\ \E reply \in GatewayReplies :
        LET rs == processMpesaPayment(reply) IN
        /\ gatewayReply' = [gatewayReply EXCEPT ![r] = reply]
        /\ result' = [result EXCEPT ![r] = rs]
        /\ IF PaymentSucceeded(rs)
           THEN /\ responseData' = [responseData EXCEPT ![r] = Skeleton(req[r], rs)]
                /\ calls' = [calls EXCEPT ![r] = @ \o <<"gateway:return", "order:call">>]
                /\ pc' = [pc EXCEPT ![r] = "order"]
                /\ UNCHANGED response
           ELSE IF ~rs.success /\ Len(calls[r]) = 1
           THEN /\ calls' = [calls EXCEPT ![r] = @ \o <<"gateway:return", "gateway:call">>]
                /\ UNCHANGED <<pc, response, responseData>>
           ELSE /\ calls' = [calls EXCEPT ![r] = Append(@, "gateway:return")]
                /\ Respond(r, [status |-> IF rs.statusCode # 0 THEN rs.statusCode ELSE 500,
                               success |-> FALSE, message |-> "Payment failed"]
                              @@ Copy("error", rs, "error"))
                /\ UNCHANGED responseData
    /\ UNCHANGED <<auth, client, now, req, orderReply, emailReply, orderResult, emailResult, orders>>

GatewayReturn(r) ==
    /\ pc[r] = "gateway"
    /\ \E reply \in GatewayReplies :
        LET rs == processMpesaPayment(reply) IN
        /\ gatewayReply' = [gatewayReply EXCEPT ![r] = reply]
        /\ result' = [result EXCEPT ![r] = rs]
        /\ IF PaymentSucceeded(rs)
           THEN /\ responseData' = [responseData EXCEPT ![r] = Skeleton(req[r], rs)]
                /\ calls' = [calls EXCEPT ![r] = @ \o <<"gateway:return", "order:call">>]
                /\ pc' = [pc EXCEPT ![r] = "order"]
                /\ UNCHANGED response
           ELSE /\ calls' = [calls EXCEPT ![r] = Append(@, "gateway:return")]
                /\ Respond(r, [status |-> IF rs.statusCode # 0 THEN rs.statusCode ELSE 500,
                               success |-> FALSE, message |-> "Payment failed"]
                              @@ Copy("error", rs, "error"))
                /\ UNCHANGED responseData
    /\ UNCHANGED <<auth, client, now, req, orderReply, emailReply, orderResult, emailResult, orders>>

\* what comes back from POST ${ORDER_SERVICE_URL}/orders
OrderExchange(net, h) ==
    CASE net = "delivered" -> HttpOf(h.res)
      [] net = "errorStatus" -> [kind |-> "http", status |-> 502, data |-> JEmpty]
      [] net = "noData" -> [kind |-> "http", status |-> 200, data |-> [json |-> "object"]]
      [] net = "nullBody" -> [kind |-> "http", status |-> 200, data |-> JNull]
      [] OTHER -> [kind |-> "noResponse"]

\* the order call returns; the orderId is attached and the email call is issued
OrderReturn(r) ==
    /\ pc[r] = "order"
    /\ \E net \in OrderNet :
        LET h == OrderService(ORDER_SERVICE_URL \o <<"orders">>, SERVICE_API_KEY,
                              OrderData(req[r], result[r]), orders, now)
            reply == OrderExchange(net, h)
            o == createOrder(reply)
        IN
        /\ orders' = IF net \in {"delivered", "replyLost"} THEN h.db ELSE orders
        /\ orderReply' = [orderReply EXCEPT ![r] = reply]
        /\ orderResult' = [orderResult EXCEPT ![r] = o]
        /\ IF o.success /\ ~Has(o, "data")
           \* orderResult.data.orderId throws: the handler's catch answers 500
           THEN /\ calls' = [calls EXCEPT ![r] = Append(@, "order:return")]
                /\ Respond(r, [status |-> 500, success |-> FALSE,
                               message |-> "Internal server error",
                               error |-> TypeErrorMessage])
                /\ UNCHANGED responseData
           ELSE /\ responseData' = [responseData EXCEPT ![r] =
                      IF o.success
                      THEN [@ EXCEPT !.data = @ @@ Copy("orderId", o.data, "orderId")]
                      ELSE @]
                /\ calls' = [calls EXCEPT ![r] = @ \o <<"order:return", "email:call">>]
                /\ pc' = [pc EXCEPT ![r] = "email"]
                /\ UNCHANGED response
    /\ UNCHANGED <<auth, client, now, req, gatewayReply, emailReply, result, emailResult>>

\* what comes back from POST ${EMAIL_SERVICE_URL}/send-email
EmailExchange(net, h) ==
    CASE net = "delivered" -> HttpOf(h)
      [] net = "errorStatus" -> [kind |-> "http", status |-> 502, data |-> JEmpty]
      [] OTHER -> [kind |-> "noResponse"]

\* variant: a failed notification turns the response into a failure
EmailReturn_FailOnError(r) ==
    /\ pc[r] = "email"
    /\ \E net \in EmailNet :
        LET h == PostSendEmail(SERVICE_API_KEY,
                               [cart |-> req[r].body.cart, total |-> req[r].body.total,
                                customerPhone |-> req[r].phone])
            reply == EmailExchange(net, h)
            e == sendEmail(reply)
            rd == [responseData[r] EXCEPT !.data = @ @@ [performance |-> "timings"]]
        IN
        /\ emailReply' = [emailReply EXCEPT ![r] = reply]
        /\ emailResult' = [emailResult EXCEPT ![r] = e]
        /\ responseData' = [responseData EXCEPT ![r] = rd]
        /\ calls' = [calls EXCEPT ![r] = Append(@, "email:return")]
        /\ IF e.success
           THEN Respond(r, [status |-> 200] @@ rd)
           ELSE Respond(r, [status |-> 500, success |-> FALSE,
                            message |-> "Internal server error", error |-> e.error])
    /\ UNCHANGED <<auth, client, now, req, gatewayReply, orderReply, result, orderResult, orders>>

\* the email call returns; the timings are attached and the response is sent
EmailReturn(r) ==
    /\ pc[r] = "email"
    /\ \E net \in EmailNet :
        LET h == PostSendEmail(SERVICE_API_KEY,
                               [cart |-> req[r].body.cart, total |-> req[r].body.total,
                                customerPhone |-> req[r].phone])
            reply == EmailExchange(net, h)
            e == sendEmail(reply)
            rd == [responseData[r] EXCEPT !.data = @ @@ [performance |-> "timings"]]
        IN
        /\ emailReply' = [emailReply EXCEPT ![r] = reply]
        /\ emailResult' = [emailResult EXCEPT ![r] = e]
        /\ responseData' = [responseData EXCEPT ![r] = rd]
        /\ calls' = [calls EXCEPT ![r] = Append(@, "email:return")]
        /\ Respond(r, [status |-> 200] @@ rd)
    /\ UNCHANGED <<auth, client, now, req, gatewayReply, orderReply, result, orderResult, orders>>

Next ==
    \/ Tick
    \/ \E r \in Runs : Payment(r)
    \/ \E r \in Runs : GatewayReturn(r)
    \/ \E r \in Runs : OrderReturn(r)
    \/ \E r \in Runs : EmailReturn(r)

Spec == Init /\ [][Next]_vars


\* ================================================================== claims
Events(r) == {calls[r][i] : i \in DOMAIN calls[r]}
Count(s, e) == Cardinality({i \in DOMAIN s : s[i] = e})
\* an a occurs before the first b
Precedes(s, a, b) ==
    \E i, j \in DOMAIN s :
        i < j /\ s[i] = a /\ s[j] = b /\ \A k \in 1..(j - 1) : s[k] # b
InFlight(r) ==
    {c \in {<<"gateway:call", "gateway:return">>, <<"order:call", "order:return">>,
            <<"email:call", "email:return">>} :
        Count(calls[r], c[1]) > Count(calls[r], c[2])}
SameField(a, b, f) == (Has(a, f) <=> Has(b, f)) /\ (Has(a, f) => a[f] = b[f])
GatewayReturned(r) == "gateway:return" \in Events(r)
GatewayFailed(r) == GatewayReturned(r) /\ ~result[r].success
SagaCalls ==
    <<"gateway:call", "gateway:return", "order:call", "order:return",
      "email:call", "email:return">>

\* C1: whenever the gateway client tagged its result success, the response of
\* the run is 200 with success:true, whatever the order store and the
\* notification dispatcher did afterwards.
C1_GatewaySuccessReportsSuccess ==
    \A r \in Runs :
        (pc[r] = "done" /\ result[r].success)
            => (response[r].status = 200 /\ response[r].success)

\* C2: a run whose gateway call returned Failure issues no order-store create
\* call and no notification call.
C2_FailureIssuesNoDownstreamCall ==
    \A r \in Runs :
        GatewayFailed(r) => ("order:call" \notin Events(r) /\ "email:call" \notin Events(r))

C2_Witness ==
    \E r \in Runs :
        /\ pc[r] = "done" /\ GatewayFailed(r)
        /\ gatewayReply[r].kind = "http" /\ gatewayReply[r].status = 401
        /\ calls[r] = <<"gateway:call", "gateway:return">>

\* C3 as stated: on a gateway Failure the response has success:false, the
\* status the gateway reported (500 when it produced no HTTP response) and the
\* gateway's error body unchanged in its error field.
C3_FailureMirrorsGateway ==
    \A r \in Runs :
        GatewayFailed(r) =>
            /\ ~response[r].success
            /\ response[r].status =
                  (IF gatewayReply[r].kind = "http" THEN gatewayReply[r].status ELSE 500)
            /\ gatewayReply[r].kind = "http" =>
                  (Has(response[r], "error") /\ response[r].error = gatewayReply[r].data)

\* C3 as amended: on a gateway Failure the response has success:false; its
\* status is the gateway's status when the gateway answered with a non-2xx
\* status and 500 otherwise (no HTTP response, or a 2xx answer with a null
\* body); its error field is the gateway's body when that answer was non-2xx
\* with a non-empty body, and the client's error message otherwise.
C3_FailureMirrorsGatewayOrMessage ==
    \A r \in Runs :
        GatewayFailed(r) =>
            LET g == gatewayReply[r]
                rejected == g.kind = "http" /\ ~Is2xx(g.status)
            IN
            /\ ~response[r].success
            /\ response[r].status = (IF rejected THEN g.status ELSE 500)
            /\ Has(response[r], "error")
            /\ response[r].error =
                  (IF rejected /\ Truthy(g.data) THEN g.data
                   ELSE IF rejected THEN AxiosStatusMessage(g.status)
                   ELSE IF g.kind = "http" THEN TypeErrorMessage
                   ELSE AxiosNetworkMessage)

C3_Witness ==
    \E r \in Runs :
        /\ pc[r] = "done" /\ GatewayFailed(r)
        /\ gatewayReply[r] = [kind |-> "http", status |-> 400, data |-> GwErrBody]
        /\ response[r].status = 400 /\ response[r].error = GwErrBody

\* C4: every request that reaches the handler (it has passed the credential
\* verifier) with a total that is missing or <= 0 is answered 400 with
\* success:false, and the run issues no gateway, order-store or notification call.
C4_InvalidTotalRejected ==
    \A r \in Runs :
        (Has(req[r], "user")
         /\ (~Has(req[r].body, "total") \/ req[r].body.total <= 0))
            => /\ pc[r] = "done"
               /\ response[r].status = 400 /\ ~response[r].success
               /\ calls[r] = <<>>

C4_Witness ==
    \E r \in Runs :
        /\ Has(req[r], "user") /\ Has(req[r].body, "total") /\ req[r].body.total = 0
        /\ response[r].status = 400

\* C5: when the gateway call succeeded and the order-store create call failed
\* (error status, timeout or unreachable), the response still has success:true
\* and carries no orderId.
C5_OrderFailureKeepsSuccess ==
    \A r \in Runs :
        (/\ pc[r] = "done" /\ result[r].success
         /\ (orderReply[r].kind = "noResponse"
             \/ (orderReply[r].kind = "http" /\ ~Is2xx(orderReply[r].status))))
            => /\ response[r].status = 200 /\ response[r].success
               /\ ~Has(response[r].data, "orderId")

C5_Witness ==
    \E r \in Runs :
        /\ pc[r] = "done" /\ result[r].success
        /\ orderReply[r].kind = "http" /\ orderReply[r].status = 502
        /\ response[r].success /\ ~Has(response[r].data, "orderId")

\* C6: the notification outcome never affects the response.  Two runs with the
\* same gateway result and the same order-store result answer alike (status,
\* success, transactionId, orderId), and the step that ends the notification
\* call answers 200 with exactly the transactionId and orderId the handler
\* held before the notification returned.
C6_SameResultsSameResponse ==
    \A r1, r2 \in Runs :
        (/\ pc[r1] = "done" /\ pc[r2] = "done"
         /\ GatewayReturned(r1) /\ GatewayReturned(r2)
         /\ result[r1] = result[r2] /\ orderResult[r1] = orderResult[r2])
            => /\ response[r1].status = response[r2].status
               /\ response[r1].success = response[r2].success
               /\ (response[r1].success =>
                     /\ SameField(response[r1].data, response[r2].data, "transactionId")
                     /\ SameField(response[r1].data, response[r2].data, "orderId"))

C6_NotificationStepKeepsResponse ==
    \A r \in Runs :
        (pc[r] = "email" /\ pc'[r] = "done")
            => /\ response'[r].status = 200 /\ response'[r].success
               /\ SameField(response'[r].data, responseData[r].data, "transactionId")
               /\ SameField(response'[r].data, responseData[r].data, "orderId")

C6_NotificationNeverAffectsResponse ==
    []C6_SameResultsSameResponse /\ [][C6_NotificationStepKeepsResponse]_vars

C6_Witness ==
    \E r1, r2 \in Runs :
        /\ pc[r1] = "done" /\ pc[r2] = "done"
        /\ result[r1].success /\ result[r1] = result[r2]
        /\ orderResult[r1] = orderResult[r2]
        /\ emailResult[r1].success /\ emailReply[r2].kind = "noResponse"
        /\ response[r1].success /\ response[r2].success

\* C7: every persisted order carries the transactionId of a gateway call that
\* returned success before the order was created; a gateway success need not
\* have an order.
C7_OrderOnlyAfterGatewaySuccess ==
    \A o \in orders :
        \E r \in Runs :
            /\ result[r].success
            /\ Has(result[r].data, "output_TransactionID")
            /\ result[r].data.output_TransactionID = o.transaction_id

C7_Witness ==
    \E r1, r2 \in Runs :
        /\ pc[r1] = "done" /\ pc[r2] = "done"
        /\ result[r1].success /\ result[r2].success
        /\ Has(result[r1].data, "output_TransactionID")
        /\ Has(result[r2].data, "output_TransactionID")
        /\ result[r1].data.output_TransactionID = "MP1"
        /\ result[r2].data.output_TransactionID = "MP2"
        /\ response[r2].success
        /\ \E o \in orders : o.transaction_id = "MP1"
        /\ \A o \in orders : o.transaction_id # "MP2"

\* C8: the steps of one run are strictly sequential.  The order call is issued
\* only after the gateway call returned, the notification call only after the
\* order call completed, at most one call of a run is in flight, a response is
\* sent only when no call is in flight, and a success response only after the
\* notification call completed.
C8_StepsSequential ==
    \A r \in Runs :
        /\ Cardinality(InFlight(r)) <= 1
        /\ "order:call" \in Events(r) => Precedes(calls[r], "gateway:return", "order:call")
        /\ "email:call" \in Events(r) => Precedes(calls[r], "order:return", "email:call")
        /\ pc[r] = "done" => InFlight(r) = {}
        /\ (pc[r] = "done" /\ response[r].success) => "email:return" \in Events(r)

C8_Witness ==
    \E r \in Runs :
        /\ pc[r] = "done" /\ calls[r] = SagaCalls
        /\ Has(response[r].data, "orderId")

\* C9: every run whose gateway call returned success issues exactly one
\* order-store create call and then exactly one notification call before the
\* response is sent.
C9_SuccessRunsAllSteps ==
    \A r \in Runs :
        (pc[r] = "done" /\ result[r].success) => calls[r] = SagaCalls

\* C10: a request whose bearer token is missing, expired or invalid is rejected
\* by the credential verifier (401 or 403, success:false) and its run issues no
\* gateway, order-store or notification call.
C10_BadTokenRejected ==
    \A r \in Runs :
        (/\ pc[r] # "idle"
         /\ LET tok == req[r].authorization IN
            \/ tok.kind # "jwt"
            \/ tok.key # JWT_SECRET
            \/ tok.exp <= req[r].at)
            => /\ pc[r] = "done"
               /\ response[r].status \in {401, 403} /\ ~response[r].success
               /\ calls[r] = <<>>

C10_Witness ==
    \E r \in Runs :
        /\ pc[r] = "done" /\ req[r].authorization.kind = "jwt"
        /\ req[r].authorization.key = JWT_SECRET
        /\ req[r].authorization.exp <= req[r].at
        /\ response[r].status = 401 /\ Has(response[r], "expired")

\* ------------------------------------------------------------ auth service
\* the clock of this part counts half hours: '1h' and '7d'
AccessExpiresIn == 2
RefreshExpiresIn == 336

MaxUsers == 2
MaxIssued == 3

Emails == {EmailOf(u) : u \in Users}
Passwords == {"pw1", "pw2"}
\* the instants observed: sign-in, the access token's expiry, the refresh
\* token's expiry
TimePoints == {0, AccessExpiresIn, RefreshExpiresIn}

\* bcrypt.hash and bcrypt.compare
Hash(password) == <<"bcrypt", password>>
\* variant: every password matches
Compare_AnyPassword(password, hashed) == TRUE

Compare(password, hashed) == hashed = Hash(password)

\* POST /register: INSERT INTO users, the id is the next serial number
PostRegister(body, table) ==
    [users |-> Append(table, [id |-> Len(table) + 1, email |-> body.email,
                              password |-> Hash(body.password)]),
     res |-> [status |-> 201, success |-> TRUE,
              message |-> "User registered successfully"]]

\* POST /login
PostLogin(body, table, t) ==
    LET rows == SelectSeq(table, LAMBDA u : u.email = body.email) IN
    IF Len(rows) = 0
    THEN [status |-> 401, success |-> FALSE,
          message |-> "Invalid email or password"]
    ELSE LET user == rows[1] IN
         IF ~Compare(body.password, user.password)
         THEN [status |-> 401, error |-> "Invalid email or password"]
         ELSE [status |-> 200, success |-> TRUE,
               message |-> "Login successful",
               data |-> [accessToken |-> Sign(user.id, user.email, JWT_SECRET,
                                              AccessExpiresIn, t),
                         refreshToken |-> Sign(user.id, user.email, JWT_SECRET,
                                               RefreshExpiresIn, t)]]

\* variant: the refresh token is decoded without being verified
PostRefreshToken_NoVerify(body, t) ==
    IF body.refreshToken.kind = "jwt"
    THEN [status |-> 200, success |-> TRUE,
          message |-> "Token refreshed successfully",
          data |-> [accessToken |-> Sign(body.refreshToken.userId,
                                         body.refreshToken.email, JWT_SECRET,
                                         AccessExpiresIn, t)]]
    ELSE [status |-> 500, success |-> FALSE,
          message |-> "Failed to refresh token"]

\* POST /refresh-token: a missing token makes jwt.verify throw like a bad one
PostRefreshToken(body, t) ==
    LET v == Verify(body.refreshToken, JWT_SECRET, t) IN
    IF v.ok
    THEN [status |-> 200, success |-> TRUE,
          message |-> "Token refreshed successfully",
          data |-> [accessToken |-> Sign(v.decoded.userId, v.decoded.email,
                                         JWT_SECRET, AccessExpiresIn, t)]]
    ELSE [status |-> 500, success |-> FALSE,
          message |-> "Failed to refresh token"]

LoggedOut ==
    [status |-> 200, success |-> TRUE, message |-> "Logged out successfully",
     data |-> [accessToken |-> JNull, refreshToken |-> JNull]]

\* variant: a token that does not verify is refused
PostLogout_Strict(body, t) ==
    IF body.refreshToken = NoToken
    THEN [res |-> LoggedOut, userId |-> "unknown"]
    ELSE LET v == Verify(body.refreshToken, JWT_SECRET, t) IN
         IF v.ok THEN [res |-> LoggedOut, userId |-> v.decoded.userId]
         ELSE [res |-> [status |-> 401, success |-> FALSE,
                        message |-> "Invalid refresh token"],
               userId |-> "unknown"]

\* POST /logout: the token, when there is one, is verified for the log line,
\* and the catch answers like the try
PostLogout(body, t) ==
    IF body.refreshToken = NoToken
    THEN [res |-> LoggedOut, userId |-> "unknown"]
    ELSE LET v == Verify(body.refreshToken, JWT_SECRET, t) IN
         IF v.ok THEN [res |-> LoggedOut, userId |-> v.decoded.userId]
         ELSE [res |-> LoggedOut, userId |-> "unknown"]

\* credentials signed with another key, short- and long-lived
Forgeries ==
    {Sign(1, EmailOf(1), "forged", AccessExpiresIn, 0),
     Sign(1, EmailOf(1), "forged", RefreshExpiresIn, 0)}

\* what a caller can put in a request: nothing, garbage, a forgery, or any
\* token the service has signed
Presentable == {NoToken, Malformed} \cup Forgeries \cup issued

Advance ==
    /\ \E t \in TimePoints : t > now /\ now' = t
    /\ UNCHANGED <<saga, auth, client>>

Register(e, p) ==
    /\ Len(users) < MaxUsers
    /\ LET body == [email |-> e, password |-> p]
           out == PostRegister(body, users) IN
        /\ users' = out.users
        /\ authOut' = [op |-> "register", at |-> now, body |-> body,
                       res |-> out.res]
    /\ UNCHANGED <<now, saga, issued, client>>

Login(e, p) ==
    /\ Cardinality(issued) < MaxIssued
    /\ LET body == [email |-> e, password |-> p]
           res == PostLogin(body, users, now) IN
        /\ authOut' = [op |-> "login", at |-> now, body |-> body, res |-> res]
        /\ issued' = IF res.status = 200
                     THEN issued \cup {res.data.accessToken,
                                       res.data.refreshToken}
                     ELSE issued
    /\ UNCHANGED <<now, saga, users, client>>

\* variant: a refresh token can be redeemed once
Refresh_OneTime(token) ==
    /\ token \in Presentable
    /\ LET spent == authOut.op = "refresh" /\ authOut.token = token
                    /\ authOut.res.status = 200
           res == IF spent
                  THEN [status |-> 500, success |-> FALSE,
                        message |-> "Failed to refresh token"]
                  ELSE PostRefreshToken([refreshToken |-> token], now) IN
        /\ authOut' = [op |-> "refresh", at |-> now, token |-> token,
                       res |-> res]
        /\ issued' = IF res.status = 200
                     THEN issued \cup {res.data.accessToken}
                     ELSE issued
    /\ UNCHANGED <<now, saga, users, client>>

Refresh(token) ==
    /\ token \in Presentable
    /\ LET res == PostRefreshToken([refreshToken |-> token], now) IN
        /\ authOut' = [op |-> "refresh", at |-> now, token |-> token,
                       res |-> res]
        /\ issued' = IF res.status = 200
                     THEN issued \cup {res.data.accessToken}
                     ELSE issued
    /\ UNCHANGED <<now, saga, users, client>>

\* a request to an endpoint behind authenticateToken (POST /api/payment,
\* GET /api/orders, ...), up to the middleware's verdict
UserRequest(token) ==
    /\ token \in Presentable
    /\ LET a == authenticateToken(token, now) IN
        authOut' = [op |-> "user", at |-> now, token |-> token,
                    next |-> a.next, user |-> a.user, res |-> a.res]
    /\ UNCHANGED <<now, saga, users, issued, client>>

Logout(token) ==
    /\ token \in Presentable
    /\ LET out == PostLogout([refreshToken |-> token], now) IN
        authOut' = [op |-> "logout", at |-> now, token |-> token,
                    res |-> out.res]
    /\ UNCHANGED <<now, saga, users, issued, client>>

AuthNext ==
    \/ Advance
    \/ \E e \in Emails, p \in Passwords : Register(e, p)
    \/ \E e \in Emails, p \in Passwords : Login(e, p)
    \/ \E token \in Presentable : Refresh(token)
    \/ \E token \in Presentable : UserRequest(token)
    \/ \E token \in Presentable : Logout(token)

AuthSpec == Init /\ [][AuthNext]_vars

\* ------------------------------------------------- claims: tokens, refresh
Genuine(token) == token.kind = "jwt" /\ token.key = JWT_SECRET
Elapsed(token, t) == token.kind = "jwt" /\ t >= token.exp
ExpiredResponse(res) ==
    res.status = 401 /\ Has(res, "expired") /\ res.expired = TRUE
InvalidResponse(res) == res.status = 403 /\ ~Has(res, "expired")

\* C11: a user endpoint answers a genuine token whose expiry has elapsed with
\* 401 and expired:true, answers a token that is malformed or signed with
\* another key with 403 and no expired flag, whether or not its expiry has
\* elapsed, and no answer is both
C11_ExpiredAndInvalidDistinct ==
    authOut.op = "user" =>
        /\ (Genuine(authOut.token) /\ Elapsed(authOut.token, authOut.at))
               => ExpiredResponse(authOut.res)
        /\ (authOut.token = Malformed \/ authOut.token \in Forgeries)
               => InvalidResponse(authOut.res)
        /\ ~(ExpiredResponse(authOut.res) /\ InvalidResponse(authOut.res))

\* a forged token whose expiry has elapsed was presented and answered 403
C11_Witness ==
    /\ authOut.op = "user"
    /\ authOut.token \in Forgeries
    /\ Elapsed(authOut.token, authOut.at)
    /\ InvalidResponse(authOut.res)

\* the lifetime a token was signed with tells which of the two it is
AccessToken(token) ==
    Genuine(token) /\ token.exp - token.iat = AccessExpiresIn
RefreshToken(token) ==
    Genuine(token) /\ token.exp - token.iat = RefreshExpiresIn

\* C12: the access token that a successful login returns, presented to a user
\* endpoint before its expiry, passes the middleware, and the claims attached
\* to the request are the id and the email of the user who logged in
C12_TokenRoundTrip ==
    /\ (authOut.op = "login" /\ authOut.res.status = 200) =>
           LET a == authenticateToken(authOut.res.data.accessToken,
                                      authOut.at) IN
               /\ a.next
               /\ a.user.email = authOut.body.email
               /\ a.user.userId \in 1..Len(users)
               /\ users[a.user.userId].email = authOut.body.email
    /\ (/\ authOut.op = "user"
        /\ authOut.token \in issued
        /\ AccessToken(authOut.token)
        /\ authOut.at < authOut.token.exp) =>
           /\ authOut.next
           /\ authOut.user.userId = authOut.token.userId
           /\ authOut.user.email = authOut.token.email

\* the second user's access token was presented in time and let through
C12_Witness ==
    /\ authOut.op = "user"
    /\ authOut.token \in issued
    /\ AccessToken(authOut.token)
    /\ authOut.at < authOut.token.exp
    /\ authOut.next
    /\ authOut.user.userId = 2

\* C13: the refresh operation answers 200 with a new access token exactly when
\* the presented token is signed with the service's key and has not expired;
\* the new token carries the presented token's userId and email; in every
\* other case, a missing token included, it answers a failure with no token
C13_RefreshVerifiesThenReissues ==
    authOut.op = "refresh" =>
        IF Genuine(authOut.token) /\ authOut.at < authOut.token.exp
        THEN /\ authOut.res.status = 200 /\ authOut.res.success
             /\ AccessToken(authOut.res.data.accessToken)
             /\ authOut.res.data.accessToken.iat = authOut.at
             /\ authOut.res.data.accessToken.userId = authOut.token.userId
             /\ authOut.res.data.accessToken.email = authOut.token.email
             /\ authOut.res.data.accessToken \in issued
        ELSE /\ authOut.res.status = 500 /\ ~authOut.res.success
             /\ ~Has(authOut.res, "data")

\* the second user's refresh token was redeemed an hour after it was signed
C13_Witness ==
    /\ authOut.op = "refresh"
    /\ RefreshToken(authOut.token)
    /\ authOut.token.userId = 2
    /\ authOut.at > authOut.token.iat
    /\ authOut.res.status = 200
    /\ authOut.res.data.accessToken.userId = 2

\* C14: a refresh token signed at login is accepted by every refresh call made
\* before its expiry and refused by every call made from its expiry on,
\* however many refresh calls were made with it before
C14_RefreshLeavesTokenValid ==
    (authOut.op = "refresh" /\ authOut.token \in issued
        /\ RefreshToken(authOut.token)) =>
        (authOut.res.status = 200 <=> authOut.at < authOut.token.exp)

\* a refresh token that was redeemed an hour after login (the access token of
\* that hour exists, and no login signed it) is refused at its expiry
C14_Witness ==
    /\ authOut.op = "refresh"
    /\ authOut.token \in issued
    /\ RefreshToken(authOut.token)
    /\ authOut.at >= authOut.token.exp
    /\ authOut.res.status = 500
    /\ \E a \in issued :
          /\ AccessToken(a) /\ a.userId = authOut.token.userId
          /\ a.iat > authOut.token.iat
          /\ \A r \in issued : RefreshToken(r) => r.iat # a.iat

\* C15: a request to a user endpoint whose bearer credential is a refresh
\* token signed at login is rejected by the middleware
C15_RefreshTokenNotABearer ==
    (authOut.op = "user" /\ authOut.token \in issued
        /\ RefreshToken(authOut.token)) => ~authOut.next

\* C16: the refresh operation refuses an access token presented in place of
\* a refresh token
C16_AccessTokenNotRefreshable ==
    (authOut.op = "refresh" /\ authOut.token \in issued
        /\ AccessToken(authOut.token)) => authOut.res.status # 200

\* ------------------------------------------------- browser client (api.ts)
MaxCalls == 2

Functions == {"processPayment", "getOrders", "getOrderById"}
AuthRequired == "Authentication required. Please login first."
AuthFailed == "Authentication failed. Please login again."
Unavailable == "Payment service unavailable"
FetchFailed == "fetch failed"
Thrown(m) == [kind |-> "thrown", message |-> m]
Returned(res) == [kind |-> "returned", body |-> res]

\* fetch either rejects (no answer) or resolves with a status and a body that
\* is JSON or not
NetworkError == [kind |-> "noResponse"]
Http(res) == [kind |-> "http", json |-> TRUE, res |-> res]
NotFound == [kind |-> "http", json |-> FALSE, res |-> [status |-> 404]]

\* localStorage items: a string of blanks, and the string "undefined" that
\* setItem(key, undefined) stores, which no verifier can parse
Blank == [kind |-> "blank"]
Undefined == Malformed

\* `Bearer ${item}` as the middleware splits it: authHeader.split(' ')[1]
HeaderToken(item) == IF item = Blank THEN NoToken ELSE item

\* what the handlers behind the middleware answer
HandlerReplies(fn) ==
    IF fn = "processPayment"
    THEN {[status |-> 200, success |-> TRUE,
           message |-> "Payment processed successfully"],
          [status |-> 400, success |-> FALSE,
           message |-> "Invalid or missing total amount"],
          [status |-> 401, success |-> FALSE, message |-> "Payment failed"],
          [status |-> 500, success |-> FALSE,
           message |-> "Internal server error"]}
    ELSE IF fn = "getOrders"
    THEN {[status |-> 200, success |-> TRUE],
          [status |-> 500, success |-> FALSE,
           message |-> "Failed to fetch orders"]}
    ELSE {[status |-> 200, success |-> TRUE],
          [status |-> 404, success |-> FALSE, message |-> "Order not found"],
          [status |-> 500, success |-> FALSE,
           message |-> "Failed to fetch order"]}

\* the protected endpoint of fn, asked with this bearer token at time t
EndpointReplies(fn, token, t) ==
    LET a == authenticateToken(token, t) IN
    {NetworkError} \cup
    (IF a.next THEN {Http(res) : res \in HandlerReplies(fn)} ELSE {Http(a.res)})

\* the auth service routes /register, /login, /refresh-token and /logout;
\* express answers any other path with a 404 page
RefreshPath == <<"api", "refresh-token">>
AuthService(path, body, t) ==
    IF path = <<"refresh-token">> THEN Http(PostRefreshToken(body, t))
    ELSE NotFound

\* AUTH_API_URL names the auth service itself (the default) or a gateway in
\* front of it that strips the /api prefix
AuthRoutes == {"service", "gateway"}
Routed(route, path) ==
    IF route = "gateway" /\ Len(path) > 0 /\ Head(path) = "api"
    THEN Tail(path) ELSE path

\* refreshToken(request): the POST and what comes back
RefreshReplies(route, body, t) ==
    {NetworkError, AuthService(Routed(route, RefreshPath), body, t)}

\* does the function refresh on this first answer?
RefreshOn(fn, res) ==
    IF fn = "processPayment"
    THEN res.status = 401 /\ Has(res, "expired") /\ res.expired = TRUE
    ELSE res.status = 401

Ok(res) == res.status >= 200 /\ res.status <= 299

\* how the function ends on a first answer that it does not refresh on
Settle(fn, res) ==
    IF fn # "processPayment" THEN Returned(res)
    ELSE IF res.status = 401 THEN Thrown(AuthFailed)
    ELSE IF ~Ok(res) /\ res.status # 400 THEN Thrown(Unavailable)
    ELSE Returned(res)

\* the page was opened after user 1 registered and logged in at time 0
LoginTokens ==
    PostLogin([email |-> EmailOf(1), password |-> "pw1"],
              PostRegister([email |-> EmailOf(1), password |-> "pw1"],
                           <<>>).users, 0).data
StoredAccessTokens ==
    {NoItem, Blank, LoginTokens.accessToken,
     Sign(1, EmailOf(1), "forged", AccessExpiresIn, 0)}
StoredRefreshTokens == {NoItem, Undefined, LoginTokens.refreshToken}

ClientInit ==
    /\ now = 0
    /\ SagaIdle
    /\ users = PostRegister([email |-> EmailOf(1), password |-> "pw1"],
                            <<>>).users
    /\ issued = {LoginTokens.accessToken, LoginTokens.refreshToken}
    /\ authOut = NoExchange
    /\ localStorage \in [accessToken : StoredAccessTokens,
                         refreshToken : StoredRefreshTokens]
    /\ call = NoCall
    /\ authRoute \in AuthRoutes
    /\ PaymentConfigured

\* the function is called and, with an access token at hand, sends the request
Invoke(fn) ==
    /\ call.pc \in {"idle", "done"}
    /\ call.n < MaxCalls
    /\ LET accessToken == localStorage.accessToken
           fresh == [NoCall EXCEPT !.fn = fn, !.n = call.n + 1,
                                   !.at = now] IN
        call' = IF accessToken = NoItem
                THEN [fresh EXCEPT !.pc = "done",
                                   !.outcome = Thrown(AuthRequired)]
                ELSE [fresh EXCEPT !.pc = "first", !.sent = <<accessToken>>]
    /\ UNCHANGED <<now, saga, auth, localStorage, elsewhere>>

\* the first fetch settles; on the refresh branch handleTokenRefresh reads the
\* refresh token and posts it
FirstResponse ==
    /\ call.pc = "first"
    /\ \E reply \in EndpointReplies(call.fn, HeaderToken(call.sent[1]), now) :
        call' =
            IF reply.kind = "noResponse"
            THEN [call EXCEPT !.pc = "done", !.outcome = Thrown(FetchFailed)]
            ELSE IF ~RefreshOn(call.fn, reply.res)
            THEN [call EXCEPT !.pc = "done", !.first = reply.res,
                              !.outcome = Settle(call.fn, reply.res)]
            ELSE IF localStorage.refreshToken = NoItem
            THEN [call EXCEPT !.pc = "done", !.first = reply.res,
                              !.outcome = Thrown(AuthFailed)]
            ELSE [call EXCEPT !.pc = "refresh", !.first = reply.res,
                              !.offered = <<localStorage.refreshToken>>]
    /\ UNCHANGED <<now, saga, auth, localStorage, elsewhere>>

\* result.success && result.data
Refreshed(reply) ==
    /\ reply.kind = "http" /\ reply.json
    /\ Has(reply.res, "success") /\ reply.res.success
    /\ Has(reply.res, "data")

\* saveTokens(result.data.accessToken, result.data.refreshToken)
saveTokens(data) ==
    [accessToken |-> data.accessToken,
     refreshToken |-> IF Has(data, "refreshToken") THEN data.refreshToken
                      ELSE Undefined]

\* variant: after a failed refresh the original request is sent again
RefreshResponse_Resend ==
    /\ call.pc = "refresh"
    /\ \E reply \in RefreshReplies(authRoute,
                                   [refreshToken |-> call.offered[1]], now) :
        IF Refreshed(reply)
        THEN /\ localStorage' = saveTokens(reply.res.data)
             /\ issued' = issued \cup {reply.res.data.accessToken}
             /\ call' = [call EXCEPT
                            !.pc = "retry", !.result = reply.res,
                            !.sent = Append(@, reply.res.data.accessToken)]
        ELSE /\ call' = [call EXCEPT
                            !.pc = "retry",
                            !.result = IF reply.kind = "http" THEN reply.res
                                       ELSE NoResponse,
                            !.sent = Append(@, call.sent[1])]
             /\ UNCHANGED <<localStorage, issued>>
    /\ UNCHANGED <<now, saga, users, authOut, elsewhere>>

\* the refresh call settles: handleTokenRefresh stores and returns the new
\* access token, and the request is sent again with it, or it returns null
RefreshResponse ==
    /\ call.pc = "refresh"
    /\ \E reply \in RefreshReplies(authRoute,
                                   [refreshToken |-> call.offered[1]], now) :
        IF Refreshed(reply)
        THEN /\ localStorage' = saveTokens(reply.res.data)
             /\ issued' = issued \cup {reply.res.data.accessToken}
             /\ call' = [call EXCEPT
                            !.pc = "retry", !.result = reply.res,
                            !.sent = Append(@, reply.res.data.accessToken)]
        ELSE /\ call' = [call EXCEPT
                            !.pc = "done",
                            !.result = IF reply.kind = "http" THEN reply.res
                                       ELSE NoResponse,
                            !.outcome = Thrown(AuthFailed)]
             /\ UNCHANGED <<localStorage, issued>>
    /\ UNCHANGED <<now, saga, users, authOut, elsewhere>>

\* variant: an expired answer to the retry starts another refresh
RetryResponse_RefreshAgain ==
    /\ call.pc = "retry"
    /\ \E reply \in EndpointReplies(call.fn, HeaderToken(call.sent[2]), now) :
        call' =
            IF reply.kind = "noResponse"
            THEN [call EXCEPT !.pc = "done", !.outcome = Thrown(FetchFailed)]
            ELSE IF RefreshOn(call.fn, reply.res)
            THEN [call EXCEPT !.pc = "refresh", !.second = reply.res,
                              !.offered = Append(@, localStorage.refreshToken)]
            ELSE [call EXCEPT !.pc = "done", !.second = reply.res,
                              !.outcome = Returned(reply.res)]
    /\ UNCHANGED <<now, saga, auth, localStorage, elsewhere>>

\* the second fetch settles: return retryResponse.json()
RetryResponse ==
    /\ call.pc = "retry"
    /\ \E reply \in EndpointReplies(call.fn, HeaderToken(call.sent[2]), now) :
        call' =
            IF reply.kind = "noResponse"
            THEN [call EXCEPT !.pc = "done", !.outcome = Thrown(FetchFailed)]
            ELSE [call EXCEPT !.pc = "done", !.second = reply.res,
                              !.outcome = Returned(reply.res)]
    /\ UNCHANGED <<now, saga, auth, localStorage, elsewhere>>

ClientNext ==
    \/ Advance
    \/ \E fn \in Functions : Invoke(fn)
    \/ FirstResponse
    \/ RefreshResponse
    \/ RetryResponse

ClientSpec == ClientInit /\ [][ClientNext]_vars

\* every fetch settles: it resolves or it rejects
ClientLive ==
    /\ ClientSpec
    /\ WF_vars(FirstResponse) /\ WF_vars(RefreshResponse)
    /\ WF_vars(RetryResponse)

\* ------------------------------------------- claims: the refresh coordinator
\* C17: within one call of processPayment, getOrders or getOrderById the
\* protected endpoint is asked at most twice and the refresh endpoint at most
\* once; a second request exists only after the refresh answered 200 with
\* success, and carries the access token of that answer; once the second
\* request is answered the call is over and that answer is what the caller
\* gets
C17_AtMostOneRefreshOneRetry ==
    /\ Len(call.sent) <= 2
    /\ Len(call.offered) <= 1
    /\ Len(call.sent) = 2 =>
           /\ Len(call.offered) = 1
           /\ call.result.status = 200 /\ call.result.success
           /\ call.sent[2] = call.result.data.accessToken
    /\ call.second # NoResponse =>
           /\ call.pc = "done"
           /\ Len(call.sent) = 2
           /\ call.outcome = Returned(call.second)

\* the retry was itself answered "expired", and that answer was returned
C17_Witness ==
    /\ call.pc = "done"
    /\ Len(call.sent) = 2 /\ Len(call.offered) = 1
    /\ ExpiredResponse(call.second)
    /\ call.outcome = Returned(call.second)

\* C18: the refresh endpoint is called only after a first answer that carries
\* expired:true, whichever of the three functions is running
C18_RefreshOnlyOnExpiredFlag ==
    Len(call.offered) > 0 =>
        (Has(call.first, "expired") /\ call.first.expired = TRUE)

\* the first answer made the function turn to the refresh coordinator
NeedsRefresh == call.first # NoResponse /\ RefreshOn(call.fn, call.first)
\* no refresh token was held, or the refresh call has ended without a token
RefreshFailed ==
    /\ call.pc \in {"retry", "done"}
    /\ Len(call.offered) = 0 \/ call.result.status # 200

C19_FailedRefreshRaises ==
    (NeedsRefresh /\ RefreshFailed) =>
        /\ call.pc = "done"
        /\ call.outcome = Thrown(AuthFailed)
        /\ Len(call.sent) = 1
C19_CallEnds == (call.pc \in {"first", "refresh", "retry"}) ~> (call.pc = "done")

\* C19: when the first answer calls for a refresh and no refresh token is
\* held, or the refresh call ends in a failure answer or a network error, the
\* call throws the authentication failure and the original request is not
\* sent again; and every call that was started comes to an end
C19_NoRefreshNoRetry == []C19_FailedRefreshRaises /\ C19_CallEnds

\* the refresh endpoint refused the offered token and the call threw
C19_Witness ==
    /\ call.pc = "done"
    /\ Len(call.offered) = 1
    /\ call.result.status = 500
    /\ call.outcome = Thrown(AuthFailed)
    /\ Len(call.sent) = 1

\* C20: processPayment was called with the login's access token after its
\* expiry and with the login's refresh token before its expiry, and every
\* request was answered: the first answer is 401 with expired:true, the
\* refresh endpoint answers 200 with a new access token, and the second
\* request, answered before that token's expiry, gets past the middleware to
\* the payment handler
C20_ExpiredThenRefreshedThenProcessed ==
    (/\ call.fn = "processPayment"
     /\ call.sent # <<>> /\ call.sent[1] = LoginTokens.accessToken
     /\ call.at >= LoginTokens.accessToken.exp
     /\ call.first # NoResponse
     /\ localStorage.refreshToken = LoginTokens.refreshToken
         \/ (call.offered = <<LoginTokens.refreshToken>>
             /\ call.pc \in {"retry", "done"})
     /\ now < LoginTokens.refreshToken.exp) =>
        /\ ExpiredResponse(call.first)
        /\ Len(call.offered) = 1
        /\ (call.pc \in {"retry", "done"} /\ call.result # NoResponse) =>
               /\ call.result.status = 200
               /\ AccessToken(call.result.data.accessToken)
               /\ Len(call.sent) = 2
        /\ (call.second # NoResponse /\ now < call.sent[2].exp) =>
               call.second \in HandlerReplies("processPayment")

\* ------------------------------------------------- order service: endpoints
\* the order object the handlers build from a row
FormatOrder(row) ==
    [orderId |-> row.order_id, userId |-> row.user_id,
     transactionId |-> row.transaction_id, amount |-> row.amount,
     status |-> row.status]

OrderNotFound ==
    [status |-> 404, success |-> FALSE, message |-> "Order not found"]

\* GET /orders behind authenticateToken: SELECT ... WHERE user_id = $1
GetOrders(user, db) ==
    LET rows == {o \in db : o.user_id = user.userId} IN
    [status |-> 200, success |-> TRUE, count |-> Cardinality(rows),
     data |-> {FormatOrder(o) : o \in rows}]

\* variant: the order is looked up by its id alone
GetOrderById_Unscoped(user, orderId, db) ==
    LET rows == {o \in db : o.order_id = orderId} IN
    IF rows = {} THEN {OrderNotFound}
    ELSE {[status |-> 200, success |-> TRUE, data |-> FormatOrder(o)] :
             o \in rows}

\* GET /orders/:orderId: SELECT ... WHERE order_id = $1 AND user_id = $2, and
\* rows[0] of what matched
GetOrderById(user, orderId, db) ==
    LET rows == {o \in db : o.order_id = orderId /\ o.user_id = user.userId} IN
    IF rows = {} THEN {OrderNotFound}
    ELSE {[status |-> 200, success |-> TRUE, data |-> FormatOrder(o)] :
             o \in rows}

\* GET /orders/transaction/:transactionId: SELECT ... WHERE transaction_id = $1
\* AND user_id = $2, and rows[0] of what matched
GetOrderByTransaction(user, transactionId, db) ==
    LET rows == {o \in db : o.transaction_id = transactionId
                            /\ o.user_id = user.userId} IN
    IF rows = {} THEN {OrderNotFound}
    ELSE {[status |-> 200, success |-> TRUE, data |-> FormatOrder(o)] :
             o \in rows}

\* x-api-key headers: absent, another key, the shared secret
ApiKeys == {NoKey, "other-key", SERVICE_API_KEY}

\* bodies of POST /api/orders: complete ones, and one without its fields
OrderBodies ==
    {[userId |-> u, transactionId |-> x, amount |-> Mils, cart |-> Cart,
      customerPhone |-> defaultPhone] : u \in Users, x \in TxnIds}
    \cup {[userId |-> 1]}

\* order ids a caller can ask for: every id the clock can have produced
OrderIds == {[prefix |-> "ORD", ms |-> t] : t \in 0..MaxTime}

\* POST /api/orders with these headers
ServiceCreate(apiKey, token, body) ==
    /\ LET h == OrderService(<<"api", "orders">>, apiKey, body, orders, now) IN
        /\ orders' = h.db
        /\ authOut' = [op |-> "createOrder", at |-> now, apiKey |-> apiKey,
                       token |-> token, body |-> body, res |-> h.res]
    /\ UNCHANGED <<now, pc, req, replies, result, orderResult, emailResult,
                   responseData, response, calls, users, issued, client>>

\* POST /send-email with these headers
ServiceEmail(apiKey, token) ==
    /\ LET body == [cart |-> Cart, total |-> 1, customerPhone |-> defaultPhone]
       IN authOut' = [op |-> "sendEmail", at |-> now, apiKey |-> apiKey,
                      token |-> token, body |-> body,
                      res |-> PostSendEmail(apiKey, body)]
    /\ UNCHANGED <<now, saga, users, issued, client>>

\* a read request: the middleware, then the handler
ReadOrders(token) ==
    /\ LET a == authenticateToken(token, now) IN
        authOut' = [op |-> "list", at |-> now, token |-> token,
                    next |-> a.next, user |-> a.user,
                    res |-> IF a.next THEN GetOrders(a.user, orders)
                            ELSE a.res]
    /\ UNCHANGED <<now, saga, users, issued, client>>

ReadOrderById(token, orderId) ==
    /\ LET a == authenticateToken(token, now) IN
        \E res \in (IF a.next THEN GetOrderById(a.user, orderId, orders)
                    ELSE {a.res}) :
            authOut' = [op |-> "getById", at |-> now, token |-> token,
                        id |-> orderId, next |-> a.next, user |-> a.user,
                        res |-> res]
    /\ UNCHANGED <<now, saga, users, issued, client>>

ReadOrderByTransaction(token, transactionId) ==
    /\ LET a == authenticateToken(token, now) IN
        \E res \in (IF a.next
                    THEN GetOrderByTransaction(a.user, transactionId, orders)
                    ELSE {a.res}) :
            authOut' = [op |-> "getByTransaction", at |-> now, token |-> token,
                        id |-> transactionId, next |-> a.next,
                        user |-> a.user, res |-> res]
    /\ UNCHANGED <<now, saga, users, issued, client>>

OrderNext ==
    \/ Tick
    \/ \E k \in ApiKeys, token \in HeaderTokens, body \in OrderBodies :
          ServiceCreate(k, token, body)
    \/ \E k \in ApiKeys, token \in HeaderTokens : ServiceEmail(k, token)
    \/ \E token \in HeaderTokens : ReadOrders(token)
    \/ \E token \in HeaderTokens, id \in OrderIds : ReadOrderById(token, id)
    \/ \E token \in HeaderTokens, x \in TxnIds :
          ReadOrderByTransaction(token, x)

OrderSpec == Init /\ [][OrderNext]_vars

\* ------------------------------------------------- claims: the order service
\* the rows that carry this identifier
RowsWith(op, id) ==
    IF op = "getById" THEN {o \in orders : o.order_id = id}
    ELSE {o \in orders : o.transaction_id = id}

\* C21: a list answer holds only orders of the authenticated caller, each of
\* them a persisted order; a lookup by order id or by transaction id answers
\* with an order of the caller, and when the identifier belongs only to
\* orders of other users it answers 404 with no order data; a request that
\* does not pass the middleware gets no order data
C21_ReadsScopedToCaller ==
    /\ (authOut.op \in {"list", "getById", "getByTransaction"}
            /\ ~authOut.next) => ~Has(authOut.res, "data")
    /\ (authOut.op = "list" /\ authOut.next) =>
           \A d \in authOut.res.data :
               /\ d.userId = authOut.user.userId
               /\ \E o \in orders : FormatOrder(o) = d
    /\ (authOut.op \in {"getById", "getByTransaction"} /\ authOut.next) =>
           LET own == {o \in RowsWith(authOut.op, authOut.id) :
                          o.user_id = authOut.user.userId} IN
           IF own = {}
           THEN authOut.res = OrderNotFound
           ELSE /\ authOut.res.status = 200
                /\ \E o \in own : authOut.res.data = FormatOrder(o)

\* a caller asked for an order id that belongs to another user's order
C21_Witness ==
    /\ authOut.op = "getById" /\ authOut.next
    /\ \E o \in orders : /\ o.order_id = authOut.id
                         /\ o.user_id # authOut.user.userId
    /\ authOut.res = OrderNotFound

\* C22: order creation and send-email act only on requests whose x-api-key is
\* the shared secret: without a key the answer is 401, with another key 403,
\* whatever bearer token the request carries, and in both cases the orders
\* table is left as it was and the notification is not processed
C22_ServiceKeyRequired_State ==
    authOut.op \in {"createOrder", "sendEmail"} =>
        /\ authOut.apiKey = NoKey => authOut.res.status = 401
        /\ authOut.apiKey \notin {NoKey, SERVICE_API_KEY}
               => authOut.res.status = 403
        /\ authOut.res.status \in {200, 201}
               => authOut.apiKey = SERVICE_API_KEY
C22_ServiceKeyRequired_Step ==
    (authOut'.op = "createOrder" /\ orders' # orders)
        => authOut'.apiKey = SERVICE_API_KEY
C22_ServiceKeyRequired ==
    []C22_ServiceKeyRequired_State /\ [][C22_ServiceKeyRequired_Step]_vars

\* an order creation that carried a valid user token and no key was refused
C22_Witness ==
    /\ authOut.op = "createOrder"
    /\ authOut.apiKey = NoKey
    /\ authenticateToken(authOut.token, authOut.at).next
    /\ Has(authOut.body, "transactionId")
    /\ authOut.res.status = 401
    /\ orders = {}

\* ------------------------------------------- the saga under either setting
\* the payment service started with ORDER_SERVICE_URL unset (the default) or
\* set to the order service's mount
DeployInit ==
    /\ now = 0
    /\ SagaIdle
    /\ AuthIdle
    /\ ClientIdle
    /\ ORDER_SERVICE_URL \in OrderServiceUrls
    /\ msisdn = NoPhone
    /\ held = NoHandles

DeploySpec == DeployInit /\ [][Next]_vars

\* the order service itself answered the create call
OrderServiceAnswered(r) ==
    /\ orderReply[r].kind = "http"
    /\ orderReply[r].status \in {201, 400, 404, 500}

\* C23: when the gateway answered 201 with a transaction id and the order
\* service answered the create call, the call ran the create handler, an
\* order of that transaction is persisted, and the run's data.orderId is that
\* order's id, which starts with ORD
C23_OrderPersistedAndAttached ==
    \A r \in Runs :
        (/\ PaymentSucceeded(result[r])
         /\ Has(result[r].data, "output_TransactionID")
         /\ OrderServiceAnswered(r)) =>
            /\ orderReply[r].status = 201
            /\ Has(responseData[r].data, "orderId")
            /\ responseData[r].data.orderId.prefix = "ORD"
            /\ \E o \in orders :
                  /\ o.order_id = responseData[r].data.orderId
                  /\ o.transaction_id = result[r].data.output_TransactionID
                  /\ o.user_id = req[r].user.userId

\* C24: no two rows of the orders table have the same order id
C24_OrderIdsUnique ==
    \A o1, o2 \in orders : o1.order_id = o2.order_id => o1 = o2

\* a second create call within the same millisecond was refused by the table
C24_Witness ==
    \E r1, r2 \in Runs :
        /\ r1 # r2
        /\ orderReply[r1].kind = "http" /\ orderReply[r1].status = 201
        /\ orderReply[r2].kind = "http" /\ orderReply[r2].status = 500
        /\ Cardinality(orders) = 1
        /\ \E o \in orders : o.order_id = orderReply[r1].data.data.orderId

\* ------------------------------------------------- claims: gateway client
\* C25: any two runs in which the gateway returned success carry different
\* transaction references, also when they started in the same millisecond
C25_TransactionRefsDistinct ==
    \A r1, r2 \in Runs :
        (r1 # r2 /\ result[r1].success /\ result[r2].success)
            => req[r1].transactionRef # req[r2].transactionRef

MaxPhoneLen == 4

\* strings are sequences of characters
Digits == {"2", "5", "8", "4", "+"}
PhoneStrings == UNION {[1..n -> Digits] : n \in 0..MaxPhoneLen}
CountryPrefix == <<"2", "5", "8">>

\* String.prototype.startsWith
startsWith(str, prefix) ==
    Len(str) >= Len(prefix) /\ SubSeq(str, 1, Len(prefix)) = prefix

\* variant: the prefix is put in front of every number
formatPhoneNumber_Always(phone) == CountryPrefix \o phone

\* phone.startsWith('258') ? phone : `258${phone}`
formatPhoneNumber(phone) ==
    IF startsWith(phone, CountryPrefix) THEN phone ELSE CountryPrefix \o phone

PhoneInit ==
    /\ now = 0
    /\ SagaIdle
    /\ AuthIdle
    /\ ClientIdle
    /\ ORDER_SERVICE_URL = OrderMount
    /\ msisdn \in {[NoPhone EXCEPT !.phone = p] : p \in PhoneStrings}
    /\ held = NoHandles

\* formatPhoneNumber(phone)
Format ==
    /\ msisdn.pc = "idle"
    /\ msisdn' = [msisdn EXCEPT !.pc = "once",
                                !.out = formatPhoneNumber(msisdn.phone)]
    /\ UNCHANGED <<now, saga, auth, localStorage, call, authRoute,
                   ORDER_SERVICE_URL, held>>

\* formatPhoneNumber(formatPhoneNumber(phone))
FormatAgain ==
    /\ msisdn.pc = "once"
    /\ msisdn' = [msisdn EXCEPT !.pc = "twice",
                                !.again = formatPhoneNumber(msisdn.out)]
    /\ UNCHANGED <<now, saga, auth, localStorage, call, authRoute,
                   ORDER_SERVICE_URL, held>>

PhoneNext == Format \/ FormatAgain

PhoneSpec == PhoneInit /\ [][PhoneNext]_vars

\* C27: the normalised phone starts with 258, a phone that already starts
\* with 258 comes back unchanged, any other comes back with 258 in front, and
\* normalising the result again changes nothing
C27_PhoneNormalisation ==
    /\ msisdn.pc \in {"once", "twice"} =>
           /\ Len(msisdn.out) >= 3
           /\ <<msisdn.out[1], msisdn.out[2], msisdn.out[3]>> = CountryPrefix
           /\ startsWith(msisdn.phone, CountryPrefix)
                  => msisdn.out = msisdn.phone
           /\ ~startsWith(msisdn.phone, CountryPrefix)
                  => msisdn.out = CountryPrefix \o msisdn.phone
    /\ msisdn.pc = "twice" => msisdn.again = msisdn.out

\* a number that starts with 25 but not with 258 was normalised twice
C27_Witness ==
    /\ msisdn.pc = "twice"
    /\ msisdn.phone = <<"2", "5", "4">>
    /\ msisdn.out = <<"2", "5", "8", "2", "5", "4">>
    /\ msisdn.again = msisdn.out

\* ------------------------------------------- claims: logout, login, failures
\* C28: POST /logout answers 200 with success:true whatever refresh token the
\* body carries: a valid one, an expired one, a forged or malformed one, none
C28_LogoutAlwaysSucceeds ==
    authOut.op = "logout" =>
        /\ authOut.res.status = 200
        /\ authOut.res.success = TRUE

\* a refresh token signed at login was sent to /logout after its expiry
C28_Witness ==
    /\ authOut.op = "logout"
    /\ authOut.token \in issued
    /\ RefreshToken(authOut.token)
    /\ Elapsed(authOut.token, authOut.at)
    /\ authOut.res.status = 200 /\ authOut.res.success

\* the users rows with this email, in the order of their ids
RowsOf(email) == SelectSeq(users, LAMBDA u : u.email = email)

\* C29: POST /login answers 200 with an access token and a refresh token
\* exactly when a user with that email exists and the password matches the
\* hash stored in the row the query returns first; both tokens carry that
\* row's id and email; otherwise the answer is 401 with no token
C29_LoginIssuesOnlyOnMatch ==
    authOut.op = "login" =>
        LET rows == RowsOf(authOut.body.email) IN
        IF rows # <<>> /\ rows[1].password = Hash(authOut.body.password)
        THEN /\ authOut.res.status = 200
             /\ AccessToken(authOut.res.data.accessToken)
             /\ RefreshToken(authOut.res.data.refreshToken)
             /\ authOut.res.data.accessToken.userId = rows[1].id
             /\ authOut.res.data.refreshToken.userId = rows[1].id
             /\ authOut.res.data.accessToken.email = authOut.body.email
             /\ authOut.res.data.refreshToken.email = authOut.body.email
        ELSE /\ authOut.res.status = 401
             /\ ~Has(authOut.res, "data")

\* a registered user logged in with a wrong password and got 401
C29_Witness ==
    /\ authOut.op = "login"
    /\ RowsOf(authOut.body.email) # <<>>
    /\ RowsOf(authOut.body.email)[1].password # Hash(authOut.body.password)
    /\ authOut.res.status = 401
    /\ issued = {}

\* C30: every 4xx or 5xx answer of the login, refresh and user endpoints has
\* a body with success:false and a message field
C30_FailuresAreStructured ==
    (authOut.op \in {"login", "refresh", "user"} /\ authOut.res.status >= 400)
        => /\ Has(authOut.res, "success") /\ authOut.res.success = FALSE
           /\ Has(authOut.res, "message")

\* ------------------------------------------------- database connection pools
\* The auth service and the order service take a client from a pg Pool with
\* pool.connect() and give it back with client.release().  A handler's result
\* is extended with the clients it acquired and the clients it released.

MaxHeld == 2

\* what a query can do: the database answers, or the statement fails
QueryOutcomes == {"ok", "error"}

RegisterFailed ==
    [status |-> 500, success |-> FALSE, message |-> "Failed to register user"]
LoginFailed ==
    [status |-> 500, success |-> FALSE, message |-> "Failed to login user"]

\* POST /register, statement by statement: bcrypt.hash throws on a missing
\* password; pool.connect(); the INSERT fails when the email is missing (the
\* column is NOT NULL) or the database fails; client.release() follows the
\* INSERT inside the try block, and the catch block only answers 500
RegisterHandler(body, table, q) ==
    IF ~Has(body, "password")
    THEN [users |-> table, res |-> RegisterFailed, acquired |-> 0, released |-> 0]
    ELSE IF ~Has(body, "email") \/ q = "error"
    THEN [users |-> table, res |-> RegisterFailed, acquired |-> 1, released |-> 0]
    ELSE PostRegister(body, table) @@ [acquired |-> 1, released |-> 1]

\* POST /login, statement by statement: pool.connect(), the SELECT, then
\* client.release() inside the try block
LoginHandler(body, table, t, q) ==
    IF q = "error"
    THEN [res |-> LoginFailed, acquired |-> 1, released |-> 0]
    ELSE [res |-> PostLogin(body, table, t), acquired |-> 1, released |-> 1]

\* POST /orders, statement by statement: authenticateService runs before the
\* handler; pool.connect(); validation and the INSERT are inside try, and
\* client.release() is in the finally block
OrdersHandler(apiKey, body, db, t, q) ==
    LET out == PostOrders(apiKey, body, db, t) IN
    IF ~authenticateService(apiKey).next
    THEN out @@ [acquired |-> 0, released |-> 0]
    ELSE IF out.res.status # 400 /\ q = "error"
    THEN [res |-> [status |-> 500, success |-> FALSE,
                   message |-> "Failed to create order"],
          db |-> db, acquired |-> 1, released |-> 1]
    ELSE out @@ [acquired |-> 1, released |-> 1]

\* request bodies of /register: either field may be missing
RegisterBodies ==
    {[email |-> e, password |-> p] : e \in Emails, p \in Passwords}
    \cup {[email |-> e] : e \in Emails}
    \cup {[password |-> p] : p \in Passwords}

PoolRegister(body, q) ==
    /\ Len(users) < MaxUsers
    /\ held.auth < MaxHeld
    /\ LET out == RegisterHandler(body, users, q) IN
        /\ users' = out.users
        /\ authOut' = [op |-> "register", at |-> now, body |-> body,
                       res |-> out.res]
        /\ held' = [held EXCEPT !.auth = @ + out.acquired - out.released]
    /\ UNCHANGED <<now, saga, issued, localStorage, call, authRoute,
                   ORDER_SERVICE_URL, msisdn>>

PoolLogin(e, p, q) ==
    /\ Cardinality(issued) < MaxIssued
    /\ held.auth < MaxHeld
    /\ LET body == [email |-> e, password |-> p]
           out == LoginHandler(body, users, now, q) IN
        /\ authOut' = [op |-> "login", at |-> now, body |-> body,
                       res |-> out.res]
        /\ issued' = IF out.res.status = 200
                     THEN issued \cup {out.res.data.accessToken,
                                       out.res.data.refreshToken}
                     ELSE issued
        /\ held' = [held EXCEPT !.auth = @ + out.acquired - out.released]
    /\ UNCHANGED <<now, saga, users, localStorage, call, authRoute,
                   ORDER_SERVICE_URL, msisdn>>

PoolCreateOrder(apiKey, body, q) ==
    /\ held.order < MaxHeld
    /\ LET out == OrdersHandler(apiKey, body, orders, now, q) IN
        /\ orders' = out.db
        /\ authOut' = [op |-> "create", at |-> now, apiKey |-> apiKey,
                       body |-> body, res |-> out.res]
        /\ held' = [held EXCEPT !.order = @ + out.acquired - out.released]
    /\ UNCHANGED <<now, pc, req, replies, result, orderResult, emailResult,
                   responseData, response, calls, users, issued,
                   localStorage, call, authRoute, ORDER_SERVICE_URL, msisdn>>

PoolNext ==
    \/ \E body \in RegisterBodies, q \in QueryOutcomes : PoolRegister(body, q)
    \/ \E e \in Emails, p \in Passwords, q \in QueryOutcomes : PoolLogin(e, p, q)
    \/ \E k \in ApiKeys, body \in OrderBodies, q \in QueryOutcomes :
           PoolCreateOrder(k, body, q)

PoolSpec == Init /\ [][PoolNext]_vars

\* C31: every pool client an operation acquires is released by that
\* operation on every path, so between requests no service holds a client
C31_HandlesReleased == held = NoHandles

\* ------------------------------------- the saga and the order store together
\* One payment whose total can have a third decimal, followed by reads of the
\* order service by the same callers.

\* totals of 1.000, 1.004 and 1.005 currency units
FractionalBodies ==
    {[cart |-> Cart, total |-> Mils + f] : f \in {0, 4, 5}}

RoundTripNext ==
    \/ \E r \in {1} : PaymentWith(r, FractionalBodies)
    \/ \E r \in {1} : GatewayReturn(r)
    \/ \E r \in {1} : OrderReturn(r)
    \/ \E r \in {1} : EmailReturn(r)
    \/ \E token \in HeaderTokens, id \in OrderIds : ReadOrderById(token, id)
    \/ \E token \in HeaderTokens, x \in TxnIds :
           ReadOrderByTransaction(token, x)

RoundTripSpec == Init /\ [][RoundTripNext]_vars

\* the run was answered with an orderId
OrderAttached(r) ==
    /\ pc[r] = "done"
    /\ response[r].status = 200
    /\ Has(response[r], "data")
    /\ Has(response[r].data, "orderId")

\* C32: the order created by a run carries the userId of the run's bearer
\* token, the gateway's transactionId, an amount equal to the request's total
\* and the status "paid", and that user's getById(orderId) and
\* getByTransactionId(transactionId) return it
C32_RoundTrip ==
    \A r \in Runs :
        OrderAttached(r) =>
            \E o \in orders :
                /\ o.order_id = response[r].data.orderId
                /\ o.user_id = req[r].user.userId
                /\ o.transaction_id = result[r].data.output_TransactionID
                /\ o.amount = req[r].body.total
                /\ o.status = "paid"
                /\ GetOrderById(req[r].user, o.order_id, orders)
                       = {[status |-> 200, success |-> TRUE,
                           data |-> FormatOrder(o)]}
                /\ [status |-> 200, success |-> TRUE, data |-> FormatOrder(o)]
                       \in GetOrderByTransaction(req[r].user, o.transaction_id,
                                                 orders)

\* the run was answered with the success body
Succeeded(r) ==
    /\ pc[r] = "done"
    /\ response[r].status = 200
    /\ Has(response[r], "data")

\* C33: whatever the interleaving of two runs, a run's response carries the
\* transactionReference that run sent to the gateway and the transactionId of
\* that run's gateway reply, and its orderId, when present, is the id of an
\* order with that transactionId
C33_ResponseIsTheRunsOwn ==
    \A r \in Runs :
        Succeeded(r) =>
            LET data == response[r].data IN
            /\ data.transactionReference = req[r].transactionRef
            /\ Has(data, "transactionId")
                   => data.transactionId = result[r].data.output_TransactionID
            /\ Has(data, "orderId")
                   => \E o \in orders :
                          /\ o.order_id = data.orderId
                          /\ o.transaction_id = data.transactionId
                          /\ o.transaction_reference = data.transactionReference

\* both runs started in the same tick, got different transaction ids and were
\* both answered with an orderId
C33_Witness ==
    /\ \A r \in Runs : Succeeded(r) /\ Has(response[r].data, "orderId")
    /\ req[1].at = req[2].at
    /\ response[1].data.transactionId # response[2].data.transactionId
    /\ response[1].data.orderId # response[2].data.orderId

\* the run's create call carried the required fields and the order service
\* answered it
ValidCreateAnswered(r) ==
    /\ PaymentSucceeded(result[r])
    /\ Has(result[r].data, "output_TransactionID")
    /\ OrderServiceAnswered(r)

\* C34: order creation never fails on an identifier collision: when the
\* create calls of two successful payments are both handled by the order
\* service, also within the same millisecond, both are answered 201 and two
\* orders with distinct ids are persisted
C34_NoIdCollision ==
    \A r1, r2 \in Runs :
        (r1 # r2 /\ ValidCreateAnswered(r1) /\ ValidCreateAnswered(r2)) =>
            /\ orderReply[r1].status = 201
            /\ orderReply[r2].status = 201
            /\ orderReply[r1].data.data.orderId # orderReply[r2].data.data.orderId
            /\ Cardinality(orders) >= 2

\* the runs whose gateway call returned success: HTTP 201
Charged == {r \in Runs : result[r].success /\ result[r].statusCode = 201}

\* C35: there are never more persisted orders than gateway calls that
\* returned success, a run issues at most one create call, and only a run
\* whose charge succeeded issues one
C35_AtMostOneOrderPerCharge ==
    /\ Cardinality(orders) <= Cardinality(Charged)
    /\ \A r \in Runs :
        /\ Count(calls[r], "order:call") <= 1
        /\ "order:call" \in Events(r) => r \in Charged
    /\ Cardinality(orders)
           <= Cardinality({r \in Runs : "order:return" \in Events(r)})

\* both charges succeeded, both create calls returned and each persisted an
\* order
C35_Witness ==
    /\ Charged = Runs
    /\ \A r \in Runs : "order:return" \in Events(r)
    /\ Cardinality(orders) = Cardinality(Charged)

\* ------------------------------------------------------ the saga, with fairness
\* Each outbound call is an axios call with a timeout (30 s for the gateway,
\* 5 s for the order and email services): it resolves or rejects, and the
\* awaiting handler is resumed.
\* The runs share nothing but the orders table, so one request is followed
\* from its arrival to its end.
Resume(r) == GatewayReturn(r) \/ OrderReturn(r) \/ EmailReturn(r)

SagaRunNext ==
    \/ Tick
    \/ \E r \in {1} : Payment(r)
    \/ \E r \in {1} : Resume(r)

SagaLive ==
    /\ Init /\ [][SagaRunNext]_vars
    /\ \A r \in {1} : WF_vars(Resume(r))

\* the request was received
Received(r) == pc[r] # "idle"

\* one response was sent
Answered(r) == response[r] # NoResponse

\* C36: every request to POST /api/payment is answered exactly once and its
\* run ends, whichever path it takes: a received request is eventually done,
\* a run that is done has sent a response, a run that is not done has sent
\* none, and a response once sent is never replaced
C36_ExactlyOneResponse ==
    /\ \A r \in Runs : Received(r) ~> (pc[r] = "done")
    /\ [](\A r \in Runs : Answered(r) <=> pc[r] = "done")
    /\ [][\A r \in Runs : Answered(r) => /\ response'[r] = response[r]
                                         /\ pc'[r] = "done"]_vars

\* a run that ended in the handler's catch block: the order service's answer
\* had no data and orderResult.data.orderId threw
C36_Witness ==
    \E r \in Runs :
        /\ pc[r] = "done"
        /\ response[r].status = 500
        /\ response[r].message = "Internal server error"
        /\ calls[r] = <<"gateway:call", "gateway:return", "order:call",
                        "order:return">>

\* ------------------------------------------------- claims: the stored tokens
\* C37: a successful refresh replaces the stored access token and leaves the
\* stored refresh token as it was, so that the same refresh token serves the
\* next refresh
C37_RefreshKeepsRefreshToken ==
    [][(call.pc = "refresh" /\ call'.pc = "retry") =>
           /\ localStorage'.refreshToken = localStorage.refreshToken
           /\ localStorage'.refreshToken = call.offered[1]
           /\ localStorage'.accessToken = call'.result.data.accessToken]_vars

\* ------------------------------------------------ one login, kept alive
\* A user signs in at time 0 and the page keeps the session going: the clock
\* advances by half hours, a token the page holds is posted to /refresh-token
\* and the access token it held is overwritten by the new one (saveTokens),
\* and a held token is presented as a bearer.

MaxClock == 340

LeaseInit ==
    /\ now = 0
    /\ SagaIdle
    /\ users = PostRegister([email |-> EmailOf(1), password |-> "pw1"],
                            <<>>).users
    /\ issued = {LoginTokens.accessToken, LoginTokens.refreshToken}
    /\ authOut = NoExchange
    /\ ClientIdle
    /\ PaymentConfigured

\* half an hour passes; the exchange observed is over
Pass ==
    /\ now < MaxClock
    /\ now' = now + 1
    /\ authOut' = NoExchange
    /\ UNCHANGED <<saga, users, issued, client>>

Renew(token) ==
    /\ token \in issued
    /\ LET res == PostRefreshToken([refreshToken |-> token], now) IN
        /\ authOut' = [op |-> "refresh", at |-> now, token |-> token,
                       res |-> res]
        /\ issued' = IF res.status = 200
                     THEN {LoginTokens.refreshToken, res.data.accessToken}
                     ELSE issued
    /\ UNCHANGED <<now, saga, users, client>>

LeaseNext ==
    \/ Pass
    \/ \E token \in issued : Renew(token)
    \/ \E token \in issued : UserRequest(token)

LeaseSpec == LeaseInit /\ [][LeaseNext]_vars

\* C38: the authorization a login gives ends with its refresh token: no
\* access token derived from the login is accepted as a bearer later than the
\* refresh token's expiry plus one access-token lifetime, whatever refresh
\* calls were made
C38_AuthorizationBounded ==
    (/\ authOut.op = "user"
     /\ authOut.next
     /\ AccessToken(authOut.token)) =>
        authOut.at <= LoginTokens.refreshToken.exp + AccessExpiresIn

\* the payment handler's answer to a failed charge, with the gateway's 401 as
\* its status
MirroredGateway401(res) ==
    /\ res.status = 401
    /\ Has(res, "message") /\ res.message = "Payment failed"

\* C39: processPayment throws 'Authentication failed. Please login again.'
\* only when the payment service rejected the caller's bearer token; a failed
\* charge answered with the gateway's status 401 is not reported as an
\* authentication failure and starts no token refresh
C39_Gateway401NotAnAuthFailure ==
    (call.fn = "processPayment" /\ MirroredGateway401(call.first)) =>
        /\ call.offered = <<>>
        /\ call.pc = "done" => call.outcome # Thrown(AuthFailed)

\* ----------------------------------------------------- claims: the user store
\* C40: an email identifies at most one user: after any sequence of register
\* calls the users table holds at most one row per email
C40_EmailIdentifiesOneUser ==
    \A i, j \in DOMAIN users : users[i].email = users[j].email => i = j

====
